---- MODULE Spec2Model ----
(***************************************************************************)
(* Emergency controller (backend/src/controllers/emergency.controller.js)  *)
(* and the frontend ApiClient (frontend/lib/api.ts).                       *)
(*                                                                         *)
(* One behaviour is one invocation: a handler is entered, runs up to its   *)
(* first await, and is resumed by the settlement of the promise it awaits. *)
(* A continuation runs in the same step as the settlement that releases    *)
(* it (promise reactions are microtasks: they run before the next I/O      *)
(* callback).                                                              *)
(*                                                                         *)
(* Strings that the code inspects (e-mail addresses, tested with           *)
(* includes("@")) are sequences of characters; other strings are TLA+      *)
(* strings, with "" the empty (falsy) string.                              *)
(***************************************************************************)
EXTENDS Integers, Sequences, FiniteSets, TLC

VARIABLES
    process,      \* "server" (the express app) or "browser" (the frontend client)
    handler,      \* the handler invoked in this behaviour ("none" before it)
    pc,           \* where the handler is suspended
    contacts,     \* mailEmergencyContacts: req.body.contacts
    dbState,      \* the record-store Promise.all: none/pending/resolved/rejected
    profile,      \* shareSummary: the loaded profile
    medications,  \* shareSummary: the loaded medications
    family,       \* shareSummary: the loaded family
    vitalsArray,  \* shareSummary: the loaded vitals (at most one, limit(1))
    summaryText,  \* shareSummary: the rendered report, a sequence of lines
    sends,        \* the sendEmergencyEmail invocations, in call order
    responses,    \* the HTTP responses sent on res, in order
    storage,      \* frontend: localStorage
    fetchCall,    \* frontend: the outgoing fetch of ApiClient.request
    result,       \* frontend: what ApiClient.request returned
    refreshCall,  \* frontend: the invocation of handleTokenRefresh
    location      \* frontend: window.location.href

vars == <<process, handler, pc, contacts, dbState, profile, medications, family,
          vitalsArray, summaryText, sends, responses, storage, fetchCall, result,
          refreshCall, location>>

frontendVars == <<storage, fetchCall, result, refreshCall, location>>

---------------------------------------------------------------------------
(* Bounds *)

MaxContacts == 3
MaxMeds == 2

SeqsUpTo(S, n) == UNION {[1..k -> S] : k \in 0..n}

---------------------------------------------------------------------------
(* Strings *)

EmailA == <<"a", "@", "x">>
EmailB == <<"b", "@", "x">>
NotAnEmail == <<"n", "o">>
EmptyString == <<>>

\* String.prototype.includes for a one-character needle
Includes(s, ch) == \E i \in DOMAIN s : s[i] = ch

\* JavaScript truthiness of a string value
Truthy(s) == s # ""
TruthyChars(s) == Len(s) > 0

\* a || b on strings
OrElse(a, b) == IF Truthy(a) THEN a ELSE b

---------------------------------------------------------------------------
(* The record store: what the lookups can resolve with *)

EmailValues == {EmailA, EmailB, NotAnEmail, EmptyString}

Contact(i, e) ==
    [_id |-> i, name |-> "contact", relation |-> "kin", phone |-> "", email |-> e]

ContactLists ==
    {[i \in DOMAIN es |-> Contact(i, es[i])] : es \in SeqsUpTo(EmailValues, MaxContacts)}

NoFamily == [present |-> FALSE, hasContacts |-> FALSE, name |-> "", emergency_contacts |-> <<>>]

Families ==
    {NoFamily,
     [present |-> TRUE, hasContacts |-> FALSE, name |-> "fam", emergency_contacts |-> <<>>]}
    \cup {[present |-> TRUE, hasContacts |-> TRUE, name |-> "fam", emergency_contacts |-> cs] :
            cs \in ContactLists}

NoProfile == [present |-> FALSE]

Profiles ==
    {NoProfile,
     [present |-> TRUE, blood_group |-> "O+", age |-> "", gender |-> "F",
      hasAllergies |-> TRUE, allergies |-> <<"pollen", "nuts">>,
      hasConditions |-> TRUE, existing_conditions |-> <<>>,
      hasDoctorEmail |-> FALSE, family_doctor_email |-> <<>>]}

Medication(i) ==
    [medicine_name |-> <<"med", i>>, dosage |-> "10mg", frequency |-> "daily",
     timing |-> <<"morning", "night">>, stock_count |-> i]

MedicationLists == {[i \in 1..k |-> Medication(i)] : k \in 0..MaxMeds}

Vital ==
    [bp_systolic |-> "120", bp_diastolic |-> "80", sugar |-> "95",
     temperature |-> "98", weight |-> "70", timestamp |-> "t0"]

VitalLists == {<<>>, <<Vital>>}

User == [name |-> "user", email |-> <<"u", "@", "x">>]

---------------------------------------------------------------------------
(* The mail collaborator: how one sendEmergencyEmail promise can settle *)

SendOutcomes ==
    {[state |-> "fulfilled", message |-> ""],
     [state |-> "rejected", message |-> "SMTP error"],
     [state |-> "rejected", message |-> ""]}

NewSend(to, subject) ==
    [to |-> to, subject |-> subject, state |-> "pending", message |-> ""]

Pending(ss) == {i \in DOMAIN ss : ss[i].state = "pending"}
Fulfilled(ss) == {i \in DOMAIN ss : ss[i].state = "fulfilled"}
Rejected(ss) == {i \in DOMAIN ss : ss[i].state = "rejected"}

---------------------------------------------------------------------------
(* shareSummary: the report template (summaryText) *)

RECURSIVE Flatten(_)
Flatten(ss) == IF ss = <<>> THEN <<>> ELSE Head(ss) \o Flatten(Tail(ss))

RECURSIVE JoinBlocks(_, _)
\* blocks.join(sep), each block and sep a sequence of lines
JoinBlocks(blocks, sep) ==
    IF blocks = <<>> THEN <<>>
    ELSE IF Len(blocks) = 1 THEN Head(blocks)
    ELSE Head(blocks) \o sep \o JoinBlocks(Tail(blocks), sep)

Blank == <<"">>
IsBlank(line) == line = <<"">> \/ line = <<"    ">>

RECURSIVE TrimStart(_)
TrimStart(lines) ==
    IF lines # <<>> /\ IsBlank(Head(lines)) THEN TrimStart(Tail(lines)) ELSE lines

RECURSIVE TrimEnd(_)
TrimEnd(lines) ==
    IF lines # <<>> /\ IsBlank(lines[Len(lines)])
    THEN TrimEnd(SubSeq(lines, 1, Len(lines) - 1))
    ELSE lines

\* String.prototype.trim on the template, line by line
Trim(lines) == TrimEnd(TrimStart(lines))

\* arr?.join(", ") || placeholder
JoinOr(has, arr, placeholder) ==
    IF has /\ Len(arr) > 0 THEN arr ELSE <<placeholder>>

PersonalLines(p) ==
    IF p.present
    THEN << <<"Blood Group: ", OrElse(p.blood_group, "Not Provided")>>,
            <<"Age: ", OrElse(p.age, "Not Provided")>>,
            <<"Gender: ", OrElse(p.gender, "Not Provided")>> >>
    ELSE << <<"No profile information available">> >>

MedicalLines(p) ==
    IF p.present
    THEN << <<"Allergies: ", JoinOr(p.hasAllergies, p.allergies, "None reported")>>,
            <<"Existing Conditions: ",
              JoinOr(p.hasConditions, p.existing_conditions, "None reported")>>,
            <<"Family Doctor Email: ",
              JoinOr(p.hasDoctorEmail, p.family_doctor_email, "None registered")>> >>
    ELSE << <<"No medical information available">> >>

MedicationBlock(med) ==
    << <<"- ", med.medicine_name, " (", med.dosage, ")">>,
       <<"    Frequency: ", med.frequency>>,
       <<"    Timing: ", med.timing>>,
       <<"    Stock: ", med.stock_count, " units remaining">> >>

\* mutant: no placeholder for an empty list
MedicationLinesNoPlaceholder(meds) ==
    JoinBlocks([i \in DOMAIN meds |-> MedicationBlock(meds[i])], <<Blank>>)

MedicationLines(meds) ==
    IF Len(meds) > 0
    THEN JoinBlocks([i \in DOMAIN meds |-> MedicationBlock(meds[i])], <<Blank>>)
    ELSE << <<"No current medications">> >>

VitalLines(vs) ==
    IF Len(vs) > 0
    THEN << Blank,
            <<"RECENT VITAL SIGNS">>,
            <<"----------------">>,
            <<"Blood Pressure: ", vs[1].bp_systolic, "/", vs[1].bp_diastolic, " mmHg">>,
            <<"Blood Sugar: ", vs[1].sugar, " mg/dL">>,
            <<"Temperature: ", vs[1].temperature, "F">>,
            <<"Weight: ", vs[1].weight, " kg">>,
            <<"Recorded on: ", vs[1].timestamp>> >>
    ELSE << Blank >>

ContactBlock(c) ==
    << <<"- ", c.name, " (", c.relation, ")">>,
       <<"    Phone: ", OrElse(c.phone, "Not provided")>>,
       <<"    Email: ", c.email>> >>

ContactLines(cs) == JoinBlocks([i \in DOMAIN cs |-> ContactBlock(cs[i])], <<>>)

Render(p, meds, fam, vs) ==
    Trim(Flatten(<<
        << Blank,
           <<"HEALTH SUMMARY REPORT">>,
           <<"--------------------">>,
           <<"Generated on: ", "now">>,
           Blank,
           <<"PERSONAL INFORMATION">>,
           <<"------------------">>,
           <<"Name: ", User.name>>,
           <<"Email: ", User.email>>,
           <<"Family Group: ", fam.name>> >>,
        PersonalLines(p),
        << Blank,
           <<"MEDICAL INFORMATION">>,
           <<"-----------------">> >>,
        MedicalLines(p),
        << Blank,
           <<"CURRENT MEDICATIONS">>,
           <<"-----------------">> >>,
        MedicationLines(meds),
        << Blank >>,
        VitalLines(vs),
        << Blank,
           <<"EMERGENCY CONTACTS">>,
           <<"----------------">> >>,
        ContactLines(fam.emergency_contacts),
        << Blank,
           <<"EMERGENCY INSTRUCTIONS">>,
           <<"--------------------">>,
           <<"1. This is an automated health summary. Please contact emergency services if needed.">>,
           <<"2. Contact family doctor or nearest emergency room for medical assistance.">>,
           <<"3. Always verify medication information with healthcare provider.">>,
           <<"4. For immediate assistance, contact the primary emergency contact listed above.">>,
           Blank,
           <<"This is an automated emergency health summary. Please do not reply.">>,
           <<"    ">> >>
    >>))

---------------------------------------------------------------------------
(* Requests *)

\* entries of req.body.contacts (any[] on the wire): strings, or something else
Entries ==
    {[type |-> "string", chars |-> EmailA],
     [type |-> "string", chars |-> EmailB],
     [type |-> "string", chars |-> NotAnEmail],
     [type |-> "object", chars |-> EmailA]}

\* req.body.contacts: missing, a non-array value, or an array
ContactsBodies ==
    {[kind |-> "undefined", items |-> <<>>],
     [kind |-> "string", items |-> <<>>]}
    \cup {[kind |-> "array", items |-> es] : es \in SeqsUpTo(Entries, MaxContacts)}

ContactIds == 1..(MaxContacts + 1)

DefaultEmergencyEmails == {EmptyString, <<"d", "@", "x">>}

DbErrors == {"db error"}

Response(status, body) == [status |-> status, body |-> body]

Respond(r) == responses' = Append(responses, r)

RECURSIVE Pick(_, _, _)
\* s.filter((_, i) => keep has i), from index i on
Pick(s, keep, i) ==
    IF i > Len(s) THEN <<>>
    ELSE (IF i \in keep THEN <<s[i]>> ELSE <<>>) \o Pick(s, keep, i + 1)

---------------------------------------------------------------------------
(* getEmergencyInfo *)

EmergencyInfo(p, meds, fam) ==
    [name |-> User.name,
     bloodGroup |-> IF p.present THEN OrElse(p.blood_group, "Not Provided") ELSE "Not Provided",
     allergies |-> IF p.present /\ p.hasAllergies THEN p.allergies ELSE <<>>,
     conditions |-> IF p.present /\ p.hasConditions THEN p.existing_conditions ELSE <<>>,
     medications |-> [i \in DOMAIN meds |->
                        [name |-> meds[i].medicine_name, dosage |-> meds[i].dosage]],
     emergencyContacts |-> IF fam.present /\ fam.hasContacts
                           THEN fam.emergency_contacts ELSE <<>>]

getEmergencyInfo ==
    /\ process = "server" /\ handler = "none"
    /\ handler' = "getEmergencyInfo"
    /\ pc' = "awaitDb"
    /\ dbState' = "pending"
    /\ UNCHANGED <<process, contacts, profile, medications, family, vitalsArray,
                   summaryText, sends, responses, frontendVars>>

getEmergencyInfoDb ==
    /\ handler = "getEmergencyInfo" /\ pc = "awaitDb"
    /\ pc' = "done"
    /\ \/ \E msg \in DbErrors :
            /\ dbState' = "rejected"
            /\ Respond(Response(500, [error |-> msg]))
       \/ \E p \in Profiles, meds \in MedicationLists, fam \in Families :
            /\ dbState' = "resolved"
            /\ Respond(Response(200, EmergencyInfo(p, meds, fam)))
    /\ UNCHANGED <<process, handler, contacts, profile, medications, family, vitalsArray,
                   summaryText, sends, frontendVars>>

---------------------------------------------------------------------------
(* shareEmergencyInfo *)

\* contact?.email || process.env.DEFAULT_EMERGENCY_EMAIL, for
\* contact = family?.emergency_contacts.find(c => c._id?.toString() === contactId)
ContactEmail(fam, contactId, dflt) ==
    LET cs == fam.emergency_contacts
        hits == {i \in DOMAIN cs : cs[i]._id = contactId}
        email == IF ~fam.present \/ hits = {} THEN EmptyString
                 ELSE cs[CHOOSE i \in hits : \A j \in hits : i <= j].email
    IN IF TruthyChars(email) THEN email ELSE dflt

shareEmergencyInfo ==
    /\ process = "server" /\ handler = "none"
    /\ handler' = "shareEmergencyInfo"
    /\ pc' = "awaitDb"
    /\ dbState' = "pending"
    /\ UNCHANGED <<process, contacts, profile, medications, family, vitalsArray,
                   summaryText, sends, responses, frontendVars>>

shareEmergencyInfoDb ==
    /\ handler = "shareEmergencyInfo" /\ pc = "awaitDb"
    /\ \/ \E msg \in DbErrors :
            /\ dbState' = "rejected"
            /\ Respond(Response(500, [error |-> msg]))
            /\ pc' = "done"
            /\ sends' = sends
       \/ \E fam \in Families, contactId \in ContactIds, dflt \in DefaultEmergencyEmails :
            /\ dbState' = "resolved"
            /\ IF fam.present /\ ~fam.hasContacts
               THEN \* undefined.find: TypeError, caught
                    /\ Respond(Response(500, [error |-> "TypeError"]))
                    /\ pc' = "done"
                    /\ sends' = sends
               ELSE LET contactEmail == ContactEmail(fam, contactId, dflt) IN
                    IF ~TruthyChars(contactEmail)
                    THEN /\ Respond(Response(400,
                                [error |-> "Emergency contact email not found."]))
                         /\ pc' = "done"
                         /\ sends' = sends
                    ELSE /\ sends' = <<NewSend(contactEmail, "Emergency Medical Info")>>
                         /\ pc' = "awaitSends"
                         /\ responses' = responses
    /\ UNCHANGED <<process, handler, contacts, profile, medications, family, vitalsArray,
                   summaryText, frontendVars>>

\* the continuation after await sendEmergencyEmail(...)
shareEmergencyInfoResume(ss) ==
    IF ss[1].state = "fulfilled"
    THEN <<Response(200, [message |-> "Emergency info emailed successfully",
                          sharedWith |-> ss[1].to])>>
    ELSE <<Response(500, [error |-> ss[1].message])>>

---------------------------------------------------------------------------
(* mailEmergencyContacts *)

\* !contacts || !Array.isArray(contacts) || contacts.length === 0
NoContactsProvided(c) ==
    c.kind = "undefined" \/ c.kind # "array" \/ Len(c.items) = 0

\* contacts.filter(e => typeof e === 'string' && e.includes("@"))
IsEmailEntry(e) == e.type = "string" /\ Includes(e.chars, "@")

\* mutant: every string entry is kept
FilterEmailsNoAt(items) ==
    LET kept == SelectSeq(items, LAMBDA e : e.type = "string")
    IN [i \in DOMAIN kept |-> kept[i].chars]

FilterEmails(items) ==
    LET kept == SelectSeq(items, IsEmailEntry)
    IN [i \in DOMAIN kept |-> kept[i].chars]

MailSubject == "Emergency Medical Info (mail-contacts)"

\* emails.map(email => sendEmergencyEmail(email, subject, emailText))
MailDispatch(emails) == [i \in DOMAIN emails |-> NewSend(emails[i], MailSubject)]

mailEmergencyContacts ==
    /\ process = "server" /\ handler = "none"
    /\ handler' = "mailEmergencyContacts"
    /\ \E c \in ContactsBodies :
        /\ contacts' = c
        /\ IF NoContactsProvided(c)
           THEN /\ Respond(Response(400, [error |-> "No contacts provided."]))
                /\ pc' = "done"
                /\ dbState' = dbState
           ELSE IF Len(FilterEmails(c.items)) = 0
           THEN /\ Respond(Response(400, [error |-> "No valid email addresses found."]))
                /\ pc' = "done"
                /\ dbState' = dbState
           ELSE /\ pc' = "awaitDb"
                /\ dbState' = "pending"
                /\ responses' = responses
    /\ UNCHANGED <<process, profile, medications, family, vitalsArray, summaryText,
                   sends, frontendVars>>

mailEmergencyContactsDb ==
    /\ handler = "mailEmergencyContacts" /\ pc = "awaitDb"
    /\ \/ \E msg \in DbErrors :
            /\ dbState' = "rejected"
            /\ Respond(Response(500, [error |-> msg]))
            /\ pc' = "done"
            /\ sends' = sends
       \/ /\ dbState' = "resolved"
          /\ sends' = MailDispatch(FilterEmails(contacts.items))
          /\ pc' = "awaitSends"
          /\ responses' = responses
    /\ UNCHANGED <<process, handler, contacts, profile, medications, family, vitalsArray,
                   summaryText, frontendVars>>

\* await Promise.all(emailPromises), when send i has just settled: Promise.all
\* rejects with the first rejection and fulfils once every promise has
mailEmergencyContactsResume(ss, i) ==
    IF ss[i].state = "rejected"
    THEN <<Response(500, [error |-> ss[i].message])>>
    ELSE IF Pending(ss) = {}
    THEN <<Response(200, [message |-> "Emergency info sent successfully.",
                          recipients |-> [k \in DOMAIN ss |-> ss[k].to]])>>
    ELSE <<>>

---------------------------------------------------------------------------
(* shareSummary *)

\* !family?.emergency_contacts || family.emergency_contacts.length === 0
NoEmergencyContacts(fam) ==
    ~fam.present \/ ~fam.hasContacts \/ Len(fam.emergency_contacts) = 0

\* mutant: the "@" test is dropped
IsValidContactNoAt(c) == TruthyChars(c.email)

\* c => c.email && c.email.includes("@")
IsValidContact(c) == TruthyChars(c.email) /\ Includes(c.email, "@")

ValidContacts(cs) == SelectSeq(cs, IsValidContact)

SummarySubject == "Emergency Health Summary"

\* validContacts.map(contact => sendEmergencyEmail(contact.email, ...).catch(...))
SummaryDispatch(valid) == [i \in DOMAIN valid |-> NewSend(valid[i].email, SummarySubject)]

shareSummary ==
    /\ process = "server" /\ handler = "none"
    /\ handler' = "shareSummary"
    /\ pc' = "awaitDb"
    /\ dbState' = "pending"
    /\ UNCHANGED <<process, contacts, profile, medications, family, vitalsArray,
                   summaryText, sends, responses, frontendVars>>

shareSummaryDb ==
    /\ handler = "shareSummary" /\ pc = "awaitDb"
    /\ \/ /\ dbState' = "rejected"
          /\ Respond(Response(500, [error |-> "Failed to send summary email."]))
          /\ pc' = "done"
          /\ UNCHANGED <<profile, medications, family, vitalsArray, summaryText, sends>>
       \/ \E p \in Profiles, meds \in MedicationLists, fam \in Families, vs \in VitalLists :
            /\ dbState' = "resolved"
            /\ profile' = p
            /\ medications' = meds
            /\ family' = fam
            /\ vitalsArray' = vs
            /\ IF NoEmergencyContacts(fam)
               THEN /\ Respond(Response(400, [error |-> "No emergency contacts found"]))
                    /\ pc' = "done"
                    /\ UNCHANGED <<summaryText, sends>>
               ELSE /\ summaryText' = Render(p, meds, fam, vs)
                    /\ LET validContacts == ValidContacts(fam.emergency_contacts) IN
                       IF Len(validContacts) = 0
                       THEN /\ Respond(Response(400,
                                   [success |-> FALSE,
                                    error |-> "No valid emergency contact emails found"]))
                            /\ pc' = "done"
                            /\ sends' = sends
                       ELSE /\ sends' = SummaryDispatch(validContacts)
                            /\ pc' = "awaitSends"
                            /\ responses' = responses
    /\ UNCHANGED <<process, handler, contacts, frontendVars>>

\* one element of results: the send's value, or what its .catch returns
SendResult(send) ==
    IF send.state = "fulfilled"
    THEN [messageId |-> "info"]
    ELSE [email |-> send.to, error |-> send.message]

\* r.error as a condition
HasError(r) == "error" \in DOMAIN r /\ Truthy(r.error)

\* results.filter(r => r.error)
Failures(results) == SelectSeq(results, HasError)

\* mutant: sentTo lists every valid contact
SentToAll(valid, results) == [i \in DOMAIN valid |-> valid[i].email]

\* validContacts.filter((_, i) => !results[i].error).map(c => c.email)
SentTo(valid, results) ==
    LET kept == Pick(valid, {i \in DOMAIN valid : ~HasError(results[i])}, 1)
    IN [i \in DOMAIN kept |-> kept[i].email]

\* failures.length === validContacts.length, under failures.length > 0
AllFailed(failures, valid) == Len(failures) = Len(valid)

\* mutant: the inner catch answers and lets the error reach the outer catch
shareSummaryResumeRethrow(ss, fam) ==
    IF Pending(ss) # {} THEN <<>>
    ELSE LET validContacts == ValidContacts(fam.emergency_contacts)
             results == [i \in DOMAIN ss |-> SendResult(ss[i])]
             failures == Failures(results)
         IN IF Len(failures) > 0 /\ AllFailed(failures, validContacts)
            THEN <<Response(500,
                     [success |-> FALSE,
                      error |-> "Failed to send summary email. Please try again."]),
                   Response(500, [error |-> "Failed to send summary email."])>>
            ELSE IF Len(failures) > 0
            THEN <<Response(200,
                     [success |-> TRUE,
                      message |-> "Health summary shared with emergency contacts",
                      sentTo |-> SentTo(validContacts, results),
                      failures |-> failures])>>
            ELSE <<Response(200,
                     [success |-> TRUE,
                      message |-> "Health summary shared with emergency contacts",
                      sentTo |-> SentTo(validContacts, results)])>>

\* the continuation after await Promise.all(emailPromises): every promise carries
\* a .catch, so Promise.all fulfils once none is pending
shareSummaryResume(ss, fam) ==
    IF Pending(ss) # {} THEN <<>>
    ELSE LET validContacts == ValidContacts(fam.emergency_contacts)
             results == [i \in DOMAIN ss |-> SendResult(ss[i])]
             failures == Failures(results)
         IN IF Len(failures) > 0 /\ AllFailed(failures, validContacts)
            THEN <<Response(500,
                     [success |-> FALSE,
                      error |-> "Failed to send summary email. Please try again."])>>
            ELSE IF Len(failures) > 0
            THEN <<Response(200,
                     [success |-> TRUE,
                      message |-> "Health summary shared with emergency contacts",
                      sentTo |-> SentTo(validContacts, results),
                      failures |-> failures])>>
            ELSE <<Response(200,
                     [success |-> TRUE,
                      message |-> "Health summary shared with emergency contacts",
                      sentTo |-> SentTo(validContacts, results)])>>

---------------------------------------------------------------------------
(* A sendEmergencyEmail promise settles; the handler awaiting it may resume *)

Resume(h, ss, i, fam) ==
    CASE h = "shareEmergencyInfo" -> shareEmergencyInfoResume(ss)
      [] h = "mailEmergencyContacts" -> mailEmergencyContactsResume(ss, i)
      [] h = "shareSummary" -> shareSummaryResume(ss, fam)
      [] OTHER -> <<>>

SettleSend(ss, i, o) == [ss EXCEPT ![i].state = o.state, ![i].message = o.message]

sendEmergencyEmailSettles ==
    \E i \in Pending(sends), o \in SendOutcomes :
        /\ sends' = SettleSend(sends, i, o)
        /\ LET out == IF pc = "awaitSends" THEN Resume(handler, sends', i, family) ELSE <<>>
           IN /\ responses' = responses \o out
              /\ pc' = IF out = <<>> THEN pc ELSE "done"
        /\ UNCHANGED <<process, handler, contacts, dbState, profile, medications, family,
                       vitalsArray, summaryText, frontendVars>>

---------------------------------------------------------------------------
(* generateHealthReportSummary *)

\* req.body.medications: missing, an array, or some other truthy value
MedicationsBodies == {"undefined", "array", "string"}

generateHealthReportSummary ==
    /\ process = "server" /\ handler = "none"
    /\ handler' = "generateHealthReportSummary"
    /\ \E keyConfigured \in BOOLEAN, meds \in MedicationsBodies :
        IF ~keyConfigured
        THEN /\ Respond(Response(500,
                    [success |-> FALSE,
                     message |-> "Failed to generate health report summary",
                     error |-> "GEMINI_API_KEY is not configured"]))
             /\ pc' = "done"
        ELSE IF meds = "string"
        THEN \* medications?.map is not a function: TypeError, caught
             /\ Respond(Response(500,
                    [success |-> FALSE,
                     message |-> "Failed to generate health report summary",
                     error |-> "TypeError"]))
             /\ pc' = "done"
        ELSE /\ pc' = "awaitAi"
             /\ responses' = responses
    /\ UNCHANGED <<process, contacts, dbState, profile, medications, family, vitalsArray,
                   summaryText, sends, frontendVars>>

AiErrors == {"ai error"}

healthChatbotSettles ==
    /\ handler = "generateHealthReportSummary" /\ pc = "awaitAi"
    /\ pc' = "done"
    /\ \/ Respond(Response(200, [success |-> TRUE, summary |-> "aiSummary"]))
       \/ \E msg \in AiErrors :
            Respond(Response(500,
                [success |-> FALSE,
                 message |-> "Failed to generate health report summary",
                 error |-> msg]))
    /\ UNCHANGED <<process, handler, contacts, dbState, profile, medications, family,
                   vitalsArray, summaryText, sends, frontendVars>>

---------------------------------------------------------------------------
(* frontend: ApiClient.request *)

StorageKeys == {"accessToken", "refreshToken"}
Tokens == {"tok"}

\* localStorage as left by earlier sessions
Storages == UNION {[K -> Tokens] : K \in SUBSET StorageKeys}

\* localStorage.getItem: the stored string, or null (written "")
GetItem(st, k) == IF k \in DOMAIN st THEN st[k] ELSE ""

BodyKinds == {"none", "json", "formData"}

\* the headers of the outgoing request
RequestHeaders(token, bodyKind) ==
    LET names == (IF Truthy(token) THEN {"Authorization"} ELSE {})
                 \cup (IF bodyKind # "formData" THEN {"Content-Type"} ELSE {})
    IN [h \in names |-> IF h = "Authorization" THEN <<"Bearer ", token>>
                        ELSE <<"application/json">>]

HttpStatuses ==
    {[ok |-> TRUE, status |-> "200", statusText |-> "OK"],
     [ok |-> FALSE, status |-> "401", statusText |-> "Unauthorized"],
     [ok |-> FALSE, status |-> "500", statusText |-> ""]}

\* what response.json() gives: a rejection, null, or an object with or without error
JsonBodies ==
    {[kind |-> "unparsable"],
     [kind |-> "null"],
     [kind |-> "object", value |-> [payload |-> "p"]],
     [kind |-> "object", value |-> [error |-> ""]],
     [kind |-> "object", value |-> [error |-> "Unauthorized request"]],
     [kind |-> "object", value |-> [accessToken |-> "access2", refreshToken |-> "refresh2"]]}

\* how fetch(url, ...) followed by response.json() can end
FetchOutcomes ==
    {[kind |-> "rejected", isError |-> TRUE, message |-> "Failed to fetch"],
     [kind |-> "rejected", isError |-> FALSE, message |-> ""]}
    \cup {[kind |-> "response", http |-> h, json |-> b] : h \in HttpStatuses, b \in JsonBodies}

\* the catch block: error instanceof Error ? error.message : 'Network error'
Caught(isError, message) ==
    [success |-> FALSE, error |-> IF isError THEN <<message>> ELSE <<"Network error">>]

\* mutant: no fallback text when the body has no error message
ErrorTextNoFallback(data, http) ==
    IF "error" \in DOMAIN data THEN <<data.error>> ELSE <<"">>

\* data.error || `HTTP ${response.status}: ${response.statusText}`
ErrorText(data, http) ==
    IF "error" \in DOMAIN data /\ Truthy(data.error)
    THEN <<data.error>>
    ELSE <<"HTTP ", http.status, ": ", http.statusText>>

\* the value request() resolves with, for one outcome of the fetch
RequestResult(o) ==
    IF o.kind = "rejected" THEN Caught(o.isError, o.message)
    ELSE IF o.json.kind = "unparsable" THEN Caught(TRUE, "Unexpected token < in JSON")
    ELSE IF ~o.http.ok
    THEN IF o.json.kind = "null"
         THEN Caught(TRUE, "Cannot read properties of null (reading 'error')")
         ELSE [success |-> FALSE, error |-> ErrorText(o.json.value, o.http)]
    ELSE [success |-> TRUE, data |-> o.json]

request ==
    /\ process = "browser" /\ fetchCall.state = "none" /\ refreshCall.state = "none"
    /\ \E bodyKind \in BodyKinds :
        fetchCall' = [state |-> "pending",
                      headers |-> RequestHeaders(GetItem(storage, "accessToken"), bodyKind)]
    /\ UNCHANGED <<process, handler, pc, contacts, dbState, profile, medications, family,
                   vitalsArray, summaryText, sends, responses, storage, result,
                   refreshCall, location>>

---------------------------------------------------------------------------
(* frontend: ApiClient.refreshToken and handleTokenRefresh *)

\* localStorage.setItem: the value is stored as a string
SetItem(st, k, v) == [x \in DOMAIN st \cup {k} |-> IF x = k THEN v ELSE st[x]]

\* localStorage.clear
Clear(st) == <<>>

\* String(data[field]), as setItem stores it: a missing field reads undefined
FieldAsString(data, field) ==
    IF field \in DOMAIN data.value THEN data.value[field] ELSE "undefined"

\* response.success && response.data
RefreshSucceeded(response) ==
    /\ response.success
    /\ "data" \in DOMAIN response
    /\ response.data.kind # "null"

\* the two setItem calls of the success branch
StoreTokens(st, data) ==
    SetItem(SetItem(st, "accessToken", FieldAsString(data, "accessToken")),
            "refreshToken", FieldAsString(data, "refreshToken"))

LoginPage == "/login"

\* handleTokenRefresh is called; apiClient.refreshToken() answers at once when no
\* refreshToken is stored, and issues the request otherwise
handleTokenRefresh ==
    /\ process = "browser" /\ fetchCall.state = "none" /\ refreshCall.state = "none"
    /\ IF ~Truthy(GetItem(storage, "refreshToken"))
       THEN /\ refreshCall' = [state |-> "done", storage |-> storage, returned |-> FALSE]
            /\ storage' = Clear(storage)
            /\ location' = LoginPage
            /\ fetchCall' = fetchCall
       ELSE /\ refreshCall' = [state |-> "awaiting", storage |-> storage]
            /\ fetchCall' = [state |-> "pending",
                             headers |-> RequestHeaders(GetItem(storage, "accessToken"), "json")]
            /\ UNCHANGED <<storage, location>>
    /\ UNCHANGED <<process, handler, pc, contacts, dbState, profile, medications, family,
                   vitalsArray, summaryText, sends, responses, result>>

\* the continuation of handleTokenRefresh after await apiClient.refreshToken()
handleTokenRefreshResume(response) ==
    IF RefreshSucceeded(response)
    THEN /\ storage' = StoreTokens(storage, response.data)
         /\ location' = location
         /\ refreshCall' = [refreshCall EXCEPT !.state = "done"] @@ [returned |-> TRUE]
    ELSE /\ storage' = Clear(storage)
         /\ location' = LoginPage
         /\ refreshCall' = [refreshCall EXCEPT !.state = "done"] @@ [returned |-> FALSE]

fetchSettles ==
    /\ fetchCall.state = "pending"
    /\ \E o \in FetchOutcomes :
        /\ fetchCall' = [fetchCall EXCEPT !.state = "settled"] @@ [outcome |-> o]
        /\ result' = [state |-> "returned", value |-> RequestResult(o)]
        /\ IF refreshCall.state = "awaiting"
           THEN handleTokenRefreshResume(RequestResult(o))
           ELSE UNCHANGED <<storage, refreshCall, location>>
    /\ UNCHANGED <<process, handler, pc, contacts, dbState, profile, medications, family,
                   vitalsArray, summaryText, sends, responses>>

---------------------------------------------------------------------------
(* Specification *)

Init ==
    /\ handler = "none"
    /\ pc = "idle"
    /\ contacts = [kind |-> "undefined", items |-> <<>>]
    /\ dbState = "none"
    /\ profile = NoProfile
    /\ medications = <<>>
    /\ family = NoFamily
    /\ vitalsArray = <<>>
    /\ summaryText = <<>>
    /\ sends = <<>>
    /\ responses = <<>>
    /\ fetchCall = [state |-> "none"]
    /\ result = [state |-> "none"]
    /\ refreshCall = [state |-> "none"]
    /\ location = "/"
    /\ \/ process = "server" /\ storage = <<>>
       \/ process = "browser" /\ storage \in Storages

Next ==
    \/ getEmergencyInfo
    \/ getEmergencyInfoDb
    \/ shareEmergencyInfo
    \/ shareEmergencyInfoDb
    \/ mailEmergencyContacts
    \/ mailEmergencyContactsDb
    \/ shareSummary
    \/ shareSummaryDb
    \/ sendEmergencyEmailSettles
    \/ generateHealthReportSummary
    \/ healthChatbotSettles
    \/ request
    \/ handleTokenRefresh
    \/ fetchSettles

Spec == Init /\ [][Next]_vars

---------------------------------------------------------------------------
(* Properties *)

FanOut == handler \in {"mailEmergencyContacts", "shareSummary"}
Responded == responses # <<>>
Settled == sends # <<>> /\ Pending(sends) = {}

RECURSIVE Sub(_, _, _)
\* the subsequence of s at the indices in keep, from index i on
Sub(s, keep, i) ==
    IF i > Len(s) THEN <<>>
    ELSE IF i \in keep THEN <<s[i]>> \o Sub(s, keep, i + 1)
    ELSE Sub(s, keep, i + 1)

Targets == [i \in DOMAIN sends |-> sends[i].to]

FailureEmails(body) ==
    IF "failures" \in DOMAIN body
    THEN [i \in DOMAIN body.failures |-> body.failures[i].email]
    ELSE <<>>

\* C1: in shareSummary, once every send to the valid contacts has settled and at
\* least one of them resolved, the response is 200 with success true, sentTo the
\* e-mails whose send resolved and failures the e-mails whose send rejected
\* (failures absent when none rejected), whatever the rejection reasons are.
C1_SentAndFailedAsSettled ==
    (handler = "shareSummary" /\ Settled /\ Fulfilled(sends) # {}) =>
        /\ Len(responses) = 1
        /\ responses[1].status = 200
        /\ responses[1].body.success = TRUE
        /\ responses[1].body.sentTo = Sub(Targets, Fulfilled(sends), 1)
        /\ FailureEmails(responses[1].body) = Sub(Targets, Rejected(sends), 1)
        /\ ("failures" \in DOMAIN responses[1].body) = (Rejected(sends) # {})

\* C2: in shareSummary, when the send to every valid contact failed, the response
\* is a 500 with success false that carries one reason per attempted recipient.
C2_AllFailedCarriesReasons ==
    (handler = "shareSummary" /\ Settled /\ Fulfilled(sends) = {}) =>
        /\ Len(responses) = 1
        /\ responses[1].status >= 500
        /\ responses[1].body.success = FALSE
        /\ "failures" \in DOMAIN responses[1].body
        /\ Len(responses[1].body.failures) = Len(sends)

\* C3: in both fan-out handlers, a response given when at least one send succeeded
\* and at least one failed is a 200 that reports the failures, never a 500.
C3_PartialFailureIsNotAnError ==
    (FanOut /\ Responded /\ Fulfilled(sends) # {} /\ Rejected(sends) # {}) =>
        /\ responses[1].status = 200
        /\ "failures" \in DOMAIN responses[1].body
        /\ Len(responses[1].body.failures) > 0

\* C4: in both fan-out handlers, no response has been sent while a send attempt
\* is still pending (full-barrier join).
C4_FullBarrierJoin ==
    (FanOut /\ Responded) => Pending(sends) = {}

\* the recipient input has no entry with an "@" (or is missing, or no list)
NoValidRecipient ==
    \/ /\ handler = "mailEmergencyContacts"
       /\ \/ contacts.kind # "array"
          \/ \A i \in DOMAIN contacts.items :
                ~(contacts.items[i].type = "string" /\ Includes(contacts.items[i].chars, "@"))
    \/ /\ handler = "shareSummary" /\ dbState = "resolved"
       /\ \/ ~family.present
          \/ ~family.hasContacts
          \/ \A i \in DOMAIN family.emergency_contacts :
                ~Includes(family.emergency_contacts[i].email, "@")

\* C5: when the recipient input (req.body.contacts, family.emergency_contacts) is
\* missing, not a list, empty or without any entry containing "@", the handler
\* answers with a 400-class error and sendEmergencyEmail is never invoked.
C5_ValidationBeforeDispatch ==
    NoValidRecipient =>
        /\ sends = <<>>
        /\ Len(responses) = 1
        /\ responses[1].status \in 400..499

C5_Witness ==
    /\ handler = "shareSummary" /\ dbState = "resolved"
    /\ Len(family.emergency_contacts) = 2
    /\ NoValidRecipient
    /\ Len(responses) = 1 /\ responses[1].status = 400

\* the e-mails of the input entries that contain "@", in input order
ValidInputEmails ==
    IF handler = "mailEmergencyContacts"
    THEN LET items == contacts.items
             all == [i \in DOMAIN items |-> items[i].chars]
         IN Sub(all, {i \in DOMAIN items :
                        items[i].type = "string" /\ Includes(items[i].chars, "@")}, 1)
    ELSE LET cs == family.emergency_contacts
             all == [i \in DOMAIN cs |-> cs[i].email]
         IN Sub(all, {i \in DOMAIN cs : Includes(cs[i].email, "@")}, 1)

\* C6: in a fan-out request whose lookups resolved, sendEmergencyEmail has been
\* invoked exactly once for each input entry containing "@", in input order, and
\* for nothing else, at dispatch and at every later moment (no attempt is ever
\* repeated, whatever the outcomes); a request that did not get that far has
\* sent nothing.
C6_OneSendPerValidEntry ==
    FanOut =>
        IF dbState = "resolved" THEN Targets = ValidInputEmails ELSE sends = <<>>

C6_Witness ==
    /\ handler = "mailEmergencyContacts"
    /\ [i \in DOMAIN contacts.items |-> contacts.items[i].chars]
         = <<EmailA, NotAnEmail, EmailB>>
    /\ Targets = <<EmailA, EmailB>>
    /\ sends[1].state = "rejected" /\ sends[2].state = "fulfilled"

NonEmptyText(t) == \E i \in DOMAIN t : t[i] # ""

\* localStorage as it was when request() was entered
StorageAtCall == IF refreshCall.state = "none" THEN storage ELSE refreshCall.storage

\* C8: ApiClient.request always returns a value: {success: true, data} exactly
\* when the fetch completed, the body parsed as JSON and response.ok holds, and
\* otherwise {success: false, error} with a non-empty error and no data; the
\* Authorization header is on the outgoing request exactly when storage holds an
\* accessToken at call time.
C8_RequestNormalizes ==
    /\ fetchCall.state # "none" =>
          ("Authorization" \in DOMAIN fetchCall.headers)
            = ("accessToken" \in DOMAIN StorageAtCall)
    /\ fetchCall.state = "settled" =>
          /\ result.state = "returned"
          /\ LET o == fetchCall.outcome
                 good == /\ o.kind = "response"
                         /\ o.json.kind # "unparsable"
                         /\ o.http.ok
                 v == result.value
             IN IF good
                THEN v.success = TRUE /\ DOMAIN v = {"success", "data"} /\ v.data = o.json
                ELSE /\ v.success = FALSE
                     /\ DOMAIN v = {"success", "error"}
                     /\ NonEmptyText(v.error)

C8_Witness ==
    /\ fetchCall.state = "settled"
    /\ "Authorization" \in DOMAIN fetchCall.headers
    /\ fetchCall.outcome.kind = "response"
    /\ ~fetchCall.outcome.http.ok
    /\ fetchCall.outcome.http.statusText = ""
    /\ fetchCall.outcome.json = [kind |-> "object", value |-> [error |-> ""]]
    /\ result.value.success = FALSE

Positions(line) == {i \in DOMAIN summaryText : summaryText[i] = line}

\* the lines of the current-medications section: after its heading and rule, up
\* to the next heading
MedicationSection ==
    LET from == CHOOSE i \in Positions(<<"CURRENT MEDICATIONS">>) : TRUE
        heads == Positions(<<"RECENT VITAL SIGNS">>) \cup Positions(<<"EMERGENCY CONTACTS">>)
        to == CHOOSE i \in heads : \A j \in heads : i <= j
    IN SubSeq(summaryText, from + 2, to - 1)

Bullets(lines) == {i \in DOMAIN lines : lines[i][1] = "- "}

\* C9: the report rendered by shareSummary has its sections in the fixed order
\* personal, medical, medications, vitals, contacts, instructions; the
\* medications section holds "No current medications" and no itemized line
\* exactly when there are no medications (one itemized line per medication
\* otherwise), and the RECENT VITAL SIGNS heading is there exactly when a vital
\* record was supplied.
C9_ReportSections ==
    (handler = "shareSummary" /\ summaryText # <<>>) =>
        LET at(h) == Positions(<<h>>)
            one(h) == Cardinality(at(h)) = 1
            before(a, b) == \A i \in at(a), j \in at(b) : i < j
        IN /\ one("PERSONAL INFORMATION") /\ one("MEDICAL INFORMATION")
           /\ one("CURRENT MEDICATIONS") /\ one("EMERGENCY CONTACTS")
           /\ one("EMERGENCY INSTRUCTIONS")
           /\ before("PERSONAL INFORMATION", "MEDICAL INFORMATION")
           /\ before("MEDICAL INFORMATION", "CURRENT MEDICATIONS")
           /\ before("CURRENT MEDICATIONS", "RECENT VITAL SIGNS")
           /\ before("CURRENT MEDICATIONS", "EMERGENCY CONTACTS")
           /\ before("RECENT VITAL SIGNS", "EMERGENCY CONTACTS")
           /\ before("EMERGENCY CONTACTS", "EMERGENCY INSTRUCTIONS")
           /\ Cardinality(at("RECENT VITAL SIGNS")) = (IF Len(vitalsArray) > 0 THEN 1 ELSE 0)
           /\ (\E i \in DOMAIN MedicationSection :
                  MedicationSection[i] = <<"No current medications">>)
                = (Len(medications) = 0)
           /\ Cardinality(Bullets(MedicationSection)) = Len(medications)

C9_Witness ==
    /\ handler = "shareSummary" /\ summaryText # <<>>
    /\ Len(medications) = 0 /\ Len(vitalsArray) = 1
    /\ Positions(<<"No current medications">>) # {}
    /\ Positions(<<"RECENT VITAL SIGNS">>) # {}

\* C10: an invocation of an emergency handler sends exactly one response: never a
\* second one, exactly one once the handler has finished, and an unfinished
\* handler is always waiting for a collaborator that can still settle, whatever
\* the collaborators' outcomes and the order in which the sends settle.
C10_ExactlyOneResponse ==
    handler # "none" =>
        /\ Len(responses) <= 1
        /\ (pc = "done") = (Len(responses) = 1)
        /\ pc = "awaitDb" => dbState = "pending"
        /\ pc = "awaitSends" => Pending(sends) # {}
        /\ pc \in {"awaitDb", "awaitSends", "awaitAi", "done"}
        /\ pc # "done" => ENABLED Next

C10_Witness ==
    /\ handler = "shareSummary" /\ pc = "done"
    /\ Len(sends) = 2 /\ Fulfilled(sends) = {} /\ Pending(sends) = {}
    /\ Len(responses) = 1 /\ responses[1].status = 500

\* the refresh response carries both tokens, as strings
CarriesTokens(o) ==
    /\ o.kind = "response"
    /\ o.json.kind = "object"
    /\ {"accessToken", "refreshToken"} \subseteq DOMAIN o.json.value

\* C11: once handleTokenRefresh has returned, either it returned true, storage
\* holds the accessToken and the refreshToken of the refresh response and no
\* redirect happened, or it returned false, storage is empty and the client is
\* at /login; with no refreshToken stored at call time no request was made and
\* it returned false.
C11_RefreshLeavesTwoStates ==
    refreshCall.state = "done" =>
        /\ IF refreshCall.returned
           THEN /\ fetchCall.state = "settled"
                /\ CarriesTokens(fetchCall.outcome)
                /\ DOMAIN storage = {"accessToken", "refreshToken"}
                /\ storage["accessToken"] = fetchCall.outcome.json.value.accessToken
                /\ storage["refreshToken"] = fetchCall.outcome.json.value.refreshToken
                /\ location # "/login"
           ELSE /\ DOMAIN storage = {}
                /\ location = "/login"
        /\ "refreshToken" \notin DOMAIN refreshCall.storage =>
                fetchCall.state = "none" /\ ~refreshCall.returned

====
